---- MODULE Spec2Model ----
(***************************************************************************)
(* 4SIGMA: a biosignal pipeline.  Two detectors (blink, gesture) publish   *)
(* events over ZeroMQ; the core unit runs a four-state session machine     *)
(* that gates them and publishes LED status flags and slide commands.      *)
(*                                                                         *)
(* Time is counted in whole seconds (time.time() read once per loop        *)
(* iteration or frame); READY_TIME, REST_TIME, CZAS_KALIBRACJI and         *)
(* COOLDOWN_PO_WYKRYCIU are whole numbers of seconds in the source.        *)
(* Scores are exact rationals <<numerator, denominator>>.                  *)
(***************************************************************************)
EXTENDS Integers, Sequences, FiniteSets, Bags, TLC

(* ------------------------------ bounds --------------------------------- *)
MaxTime == 8        \* the clock stops advancing here
MaxQueue == 2       \* receive high-water mark of a subscription (FIFO mode)
MaxArrive == 3      \* event messages published in a run with fairness
MaxEvents == 2      \* event messages published while the LED listens
MaxLedTime == 6     \* the clock of the LED listener stops advancing here
MaxPub == 4         \* event messages the detectors publish in a run
MaxCalib == 6       \* samples accumulated while collecting
MaxFrames == 10     \* frames the gesture detector processes in a run
BUFFER_SIZE == 3    \* samples per channel of a rolling buffer (scaled down)
MinCheckLen == 2    \* int(SFREQ * 0.1), scaled down with BUFFER_SIZE
MaxChunk == 4       \* samples in one chunk the gesture detector fetches
MaxPacketLen == 2   \* samples in one packet on the raw-data topic
MaxPackets == 2     \* packets the blink detector drains in one cycle
MaxStream == 4      \* samples fed to one rolling buffer in a run

(* ------------------- core_unit_final.py: constants --------------------- *)
READY_TIME == 3
REST_TIME == 2

BLINK_WAIT == 0
READY == 1
REST == 2

WAIT_FOR_BLINK == 0
PREPARE_TO_LISTEN == 1
WAIT_FOR_MOVE == 2
RESTING == 3

(* ------------------- fourier_final.py: constants ----------------------- *)
CZAS_KALIBRACJI == 3
MNOZNIK_DOLNY_Zeby == <<3, 2>>
MNOZNIK_GORNY_Glowa == <<100, 1>>
COOLDOWN_PO_WYKRYCIU == 1
MIN_LICZBA_KLATEK == 2

(* ----------------- halo_WM_client_final.py: constants ------------------ *)
SFREQ == 250
DERIV_THRESH == 20000
ANALYZED_CHANELS == <<"O1", "O2">>

VARIABLES
    now,              \* time.time(), seconds since the workers started
    \* core unit (core_unit_final.py)
    state, wait_start_time, led_flag, move_armed,
    blink_sub, move_sub,   \* messages held by the two SUB sockets
    conflate,         \* whether ZMQ_CONFLATE is in effect on the SUB sockets
                      \* (l.45-46 come after connect(): it is not)
    out,              \* everything the core unit has sent, in send order
    \* gesture detector (fourier_final.py)
    is_calibrated, calibration_buffer, baseline_power,
    counter_zacisk, block_until, signal_to_send,
    \* history variables (not program state)
    n_blink_pub, n_move_pub,   \* messages published so far per topic
    last_blink, last_move,     \* last message the core unit read per topic
    armed_visit,               \* number of entries into WAIT_FOR_MOVE so far
    entered_at,                \* time at which the current mode was entered
    n_triggered,               \* blink-events with blink = 1 read so far
    cmd_log,                   \* per command sent: when, and n_triggered then
    frame,                     \* the last frame the gesture detector processed
    \* rolling buffers: fourier_final.py (g_), halo_WM_client_final.py (b_)
    g_eeg_buffer, b_eeg_buffer,   \* one channel row of eeg_buffer
    \* life of the worker processes
    pc,                        \* "countdown", "running", "exited", "blocked"
    sockets_open,              \* whether the worker's sockets are still open
    context_open,              \* whether its zmq.Context is not terminated
    cause,                     \* history: what made the worker leave its loop
    outcome,                   \* history: what its last loop iteration did
    \* history variables of the signal path
    g_stream, b_stream,        \* all samples fed to the buffer so far
    cycle,                     \* the last cycle of the blink detector
    reported,                  \* stream positions of spikes already reported
    \* LED controller (led_controller_final.py)
    led_colour,                \* fill colour of the LED item of the overlay
    led_running,               \* ZmqListener.running
    led_main,                  \* position of the main thread (l.157-185)
    led_at,                    \* position of the listener thread in run()
    led_read,                  \* status messages published so far that its
                               \* SUB socket missed or handed over
    led_recv,                  \* history: the receive begun last
    led_call,                  \* the update_state call begun last (l.138)
    led_shown,                 \* history: the status message processed last
    \* loader (loader-final.py)
    alive,                     \* Process.is_alive() per worker process
    loader_at,                 \* position of the loader's main code
    loader_i,                  \* index of the termination loop (l.95)
    loader_end,                \* history: how and when the monitor loop ended
    loader_sigterm,            \* processes terminate() was called on (l.97)
    loader_joined              \* history: processes whose join() returned

coreVars == <<state, wait_start_time, led_flag, move_armed, out,
              last_blink, last_move, armed_visit, entered_at,
              n_triggered, cmd_log>>
busVars == <<blink_sub, move_sub, conflate, n_blink_pub, n_move_pub>>
detVars == <<is_calibrated, calibration_buffer, baseline_power,
             counter_zacisk, block_until, signal_to_send, frame>>
sigVars == <<g_eeg_buffer, g_stream, b_eeg_buffer, b_stream, cycle, reported>>
lifeVars == <<pc, sockets_open, context_open, cause, outcome>>
ledVars == <<led_colour, led_running, led_main, led_at, led_read, led_recv,
             led_call, led_shown>>
loaderVars == <<alive, loader_at, loader_i, loader_end, loader_sigterm,
               loader_joined>>
vars == <<now, coreVars, busVars, detVars, sigVars, lifeVars, ledVars,
          loaderVars>>

(* ------------------------------ rationals ------------------------------ *)
RGt(a, b) == a[1] * b[2] > b[1] * a[2]
REq(a, b) == a[1] * b[2] = b[1] * a[2]
RGe(a, b) == a[1] * b[2] >= b[1] * a[2]
RDiv(a, b) == <<a[1] * b[2], a[2] * b[1]>>
RAdd(a, b) == <<a[1] * b[2] + b[1] * a[2], a[2] * b[2]>>

RECURSIVE Gcd(_, _)
Gcd(a, b) == IF b = 0 THEN a ELSE Gcd(b, a % b)

RNorm(a) ==
    LET g == Gcd(a[1], a[2]) IN
    IF a[1] = 0 THEN <<0, 1>> ELSE <<a[1] \div g, a[2] \div g>>

(* ------------------------------ messages ------------------------------- *)
\* A JSON object is a set of <<key, value>> pairs; dict.get(key, default).
Get(msg, key, default) ==
    IF \E p \in msg : p[1] = key
    THEN (CHOOSE p \in msg : p[1] = key)[2]
    ELSE default

NoValue == 99    \* Python None returned by dict.get without a default

MoveMsgs == {{<<"move", -1>>}, {<<"move", 0>>}, {<<"move", 1>>}, {}}
BlinkMsgs == {{<<"blink", 0>>}, {<<"blink", 1>>}}

\* A delivered message with its history tags: sequence number on its topic,
\* session mode and WAIT_FOR_MOVE visit at the moment it was published.
Envelope(n, body) ==
    [id |-> n, body |-> body, st |-> state, visit |-> armed_visit]

NoMsg == [id |-> 0, body |-> {}, st |-> WAIT_FOR_BLINK, visit |-> 0]

\* PUB -> SUB delivery.  With ZMQ_CONFLATE in effect a SUB socket keeps only
\* the newest message; otherwise its pipe is a FIFO with a receive
\* high-water mark beyond which new messages are dropped.  libzmq applies
\* the option to the pipes created after it is set: core_unit_final.py
\* sets it on both SUB sockets (l.45-46) after connect() (l.30, 34) has
\* created their pipes, so it is not in effect (conflate is FALSE).
DeliverNewestFirst(sub, env) ==
    IF conflate THEN <<env>>
    ELSE IF Len(sub) < MaxQueue THEN <<env>> \o sub
    ELSE sub

Deliver(sub, env) ==
    IF conflate THEN <<env>>
    ELSE IF Len(sub) < MaxQueue THEN Append(sub, env)
    ELSE sub

(* ------------------- gesture detector: pure parts ---------------------- *)
\* Band-power values the feature extractor can hand to the detection logic
\* (calculate_band_power returns 0.0 or a mean of PSD bins).
RawScores == {<<0, 1>>, <<1, 2>>, <<1, 1>>, <<3, 2>>, <<100, 1>>}

start_time == 0

\* the sum of the samples of accumulator B that are equal to a value in S
RECURSIVE SumOver(_, _)
SumOver(B, S) ==
    IF S = {} THEN <<0, 1>>
    ELSE LET x == CHOOSE y \in S : TRUE
         IN RAdd(<<x[1] * B[x], x[2]>>, SumOver(B, S \ {x}))

BagSum(B) == SumOver(B, BagToSet(B))

\* np.mean(calibration_buffer)
Mean(B) == RNorm(RDiv(BagSum(B), <<BagCardinality(B), 1>>))

\* l.185-186: only positive feature samples are accumulated
Accumulate(buf, raw) ==
    IF RGt(raw, <<0, 1>>) THEN buf (+) SetToBag({raw}) ELSE buf

\* l.188-189: warm-up over and enough samples
CalibrationDue(elapsed, buf) ==
    elapsed > CZAS_KALIBRACJI /\ BagCardinality(buf) > 5

\* l.190-191: baseline with its guard against a zero mean
BaselineFloor == <<1, 1>>

Baseline(buf) ==
    IF REq(Mean(buf), <<0, 1>>) THEN BaselineFloor ELSE Mean(buf)

\* l.201: normalized_score
Normalize(raw, base) ==
    IF RGt(base, <<0, 1>>) THEN RNorm(RDiv(raw, base)) ELSE <<0, 1>>

\* l.203: current_time < block_until
InCooldownNever(t, blk) == FALSE
InCooldown(t, blk) == t < blk

\* l.207: normalized_score > MNOZNIK_GORNY_Glowa
IsHeadReversed(score) == RGt(MNOZNIK_GORNY_Glowa, score)
IsHead(score) == RGt(score, MNOZNIK_GORNY_Glowa)

\* l.215: normalized_score > MNOZNIK_DOLNY_Zeby
IsTeethInclusive(score) == RGe(score, MNOZNIK_DOLNY_Zeby)
IsTeeth(score) == RGt(score, MNOZNIK_DOLNY_Zeby)

\* l.217: counter_zacisk >= MIN_LICZBA_KLATEK

Debounced(cnt) == cnt >= MIN_LICZBA_KLATEK

\* l.203-224: the decision of one calibrated frame, as
\* [sig, counter_zacisk, block_until] after the frame
DecideHeadDebounced(score, t, cnt, blk) ==
    IF InCooldown(t, blk)
    THEN [sig |-> 0, cnt |-> cnt, blk |-> blk]
    ELSE IF IsHead(score) \/ IsTeeth(score)
    THEN IF Debounced(cnt + 1)
         THEN [sig |-> IF IsHead(score) THEN -1 ELSE 1, cnt |-> 0,
               blk |-> t + COOLDOWN_PO_WYKRYCIU]
         ELSE [sig |-> 0, cnt |-> cnt + 1, blk |-> blk]
    ELSE [sig |-> 0, cnt |-> 0, blk |-> blk]
Decide(score, t, cnt, blk) ==
    IF InCooldown(t, blk)
    THEN [sig |-> 0, cnt |-> cnt, blk |-> blk]
    ELSE IF IsHead(score)
    THEN [sig |-> -1, cnt |-> 0, blk |-> t + COOLDOWN_PO_WYKRYCIU]
    ELSE IF IsTeeth(score)
    THEN IF Debounced(cnt + 1)
         THEN [sig |-> 1, cnt |-> 0, blk |-> t + COOLDOWN_PO_WYKRYCIU]
         ELSE [sig |-> 0, cnt |-> cnt + 1, blk |-> blk]
    ELSE [sig |-> 0, cnt |-> 0, blk |-> blk]

\* l.183-224: detection runs only once calibrated; a collecting frame
\* sends 0 and leaves counter_zacisk and block_until alone
DetectWithoutGate(cal, raw, base, t, cnt, blk) ==
    Decide(Normalize(raw, base), t, cnt, blk)
Detect(cal, raw, base, t, cnt, blk) ==
    IF cal THEN Decide(Normalize(raw, base), t, cnt, blk)
    ELSE [sig |-> 0, cnt |-> cnt, blk |-> blk]

\* l.183-198: the calibration phase of one frame, as
\* [cal, buf, base] = is_calibrated, calibration_buffer, baseline_power
CalibrateAgain(cal, buf, base, elapsed, raw) ==
    LET b == Accumulate(buf, raw) IN
    IF CalibrationDue(elapsed, b)
    THEN [cal |-> TRUE, buf |-> b, base |-> Baseline(b)]
    ELSE [cal |-> cal, buf |-> b, base |-> base]
Calibrate(cal, buf, base, elapsed, raw) ==
    LET b == Accumulate(buf, raw) IN
    IF cal THEN [cal |-> cal, buf |-> buf, base |-> base]
    ELSE IF CalibrationDue(elapsed, b)
    THEN [cal |-> TRUE, buf |-> b, base |-> Baseline(b)]
    ELSE [cal |-> FALSE, buf |-> b, base |-> base]

(* ----------------------- rolling sample buffers ----------------------- *)
\* np.zeros(BUFFER_SIZE), one channel row
Zeros(n) == [i \in 1..n |-> 0]

\* s[-n:] for a sequence of at least n elements
LastN(s, n) == SubSeq(s, Len(s) - n + 1, Len(s))

SeqsUpTo(S, n) == UNION {[1..m -> S] : m \in 1..n}

\* Samples of one channel in volts, as fetched by the gesture detector.
SamplesV == {0, 100}
Chunks == SeqsUpTo(SamplesV, MaxChunk)

\* fourier_final.py l.161-164: the buffer row after a chunk d of new samples
GestureRoll(buf, d) ==
    LET new_len == Len(d) IN
    IF new_len >= BUFFER_SIZE THEN LastN(d, BUFFER_SIZE)
    ELSE [i \in 1..BUFFER_SIZE |->
            IF i <= BUFFER_SIZE - new_len THEN buf[i + new_len]
            ELSE d[i - (BUFFER_SIZE - new_len)]]

\* np.roll(buf, -k): element i of the result is element i + k, cyclically
Roll(buf, k) == [i \in 1..Len(buf) |-> buf[((i - 1 + k) % Len(buf)) + 1]]

\* first index (from 1) of the slice [-k:] of an array of n elements
SliceStart(n, k) == IF k = 0 \/ k >= n THEN 1 ELSE n - k + 1

\* halo_WM_client_final.py l.89-90: roll, then assign the new block to the
\* slice [-chunk_len:].  numpy accepts the assignment when the block is as
\* long as the slice (or one sample long, which it broadcasts) and raises
\* ValueError otherwise, after eeg_buffer was already replaced at l.89.
BlinkRoll(buf, new_block) ==
    LET chunk_len == Len(new_block)
        rolled == Roll(buf, chunk_len)
        first == SliceStart(Len(buf), chunk_len)
        slice_len == Len(buf) - first + 1
    IN
    IF chunk_len = slice_len \/ chunk_len = 1
    THEN [ok |-> TRUE,
          buf |-> [i \in 1..Len(buf) |->
                     IF i < first THEN rolled[i]
                     ELSE IF chunk_len = 1 THEN new_block[1]
                     ELSE new_block[i - first + 1]]]
    ELSE [ok |-> FALSE, buf |-> rolled]

(* -------------------- blink detector: pure parts ----------------------- *)
\* Packets on the raw-data topic (fourier_final.py l.146-151): samples of
\* channel O1 in microvolts, the DC offset and the channel names.
SamplesUV == {-2000000000, 2000000000}

Packets ==
    {[data |-> d, dc_offset |-> 0, channels |-> ANALYZED_CHANELS] :
        d \in SeqsUpTo(SamplesUV, MaxPacketLen)}

\* payloads that lack one of the fields the blink detector reads
MalformedPackets ==
    {[dc_offset |-> 0, channels |-> ANALYZED_CHANELS],
     [data |-> <<0>>, channels |-> ANALYZED_CHANELS],
     [data |-> <<0>>, dc_offset |-> 0]}

\* samples carried by a list of packets
RECURSIVE Carried(_)
Carried(pkts) ==
    IF pkts = <<>> THEN 0
    ELSE (IF "data" \in DOMAIN Head(pkts) THEN Len(Head(pkts).data) ELSE 0)
         + Carried(Tail(pkts))

\* what one cycle can find waiting on the subscription: well-formed packets,
\* or a malformed one alone, before or after a well-formed one
PacketLists ==
    {pkts \in SeqsUpTo(Packets, MaxPackets) : Carried(pkts) <= MaxStream}
    \cup {<<m>> : m \in MalformedPackets}
    \cup {<<p, m>> : p \in {q \in Packets : Len(q.data) = 1},
                     m \in MalformedPackets}
    \cup {<<m, p>> : p \in {q \in Packets : Len(q.data) = 1},
                     m \in MalformedPackets}

\* l.67-69: pkt["data"], pkt["dc_offset"], pkt["channels"]
HasFields(pkt) == {"data", "dc_offset", "channels"} \subseteq DOMAIN pkt

\* l.73-77: microvolts to volts, offset removed
ToVolts(uv) == uv \div 1000000
MyChunk(pkt) ==
    [i \in 1..Len(pkt.data) |-> ToVolts(pkt.data[i]) - ToVolts(pkt.dc_offset)]

\* l.84: np.concatenate(chunks_to_process, axis=1)
RECURSIVE Concatenate(_)
Concatenate(pkts) ==
    IF pkts = <<>> THEN <<>>
    ELSE MyChunk(Head(pkts)) \o Concatenate(Tail(pkts))

Abs(x) == IF x < 0 THEN -x ELSE x
Max(a, b) == IF a >= b THEN a ELSE b

\* l.23-24, l.99, l.102: the response of the filters followed by the
\* derivative to a unit sample.  sosfilt starts from rest, so the cascade
\* sosfilt(sos_low, sosfilt(sos_high, x)) is the convolution of x with its
\* impulse response h (butter(2, 0.3, 'highpass') and butter(2, 20.0,
\* 'lowpass') at fs = 250: h = 0.045887, 0.151270, 0.219607, 0.210746,
\* 0.165564, 0.110866, ...), and the derivative of the filtered signal is
\* the convolution with (h[k] - h[k-1]) * SFREQ, here in mV/s per volt.
DerivKernel == <<11472, 26346, 17084, -2215, -11296, -13674>>

RECURSIVE Sum(_)
Sum(s) == IF s = <<>> THEN 0 ELSE Head(s) + Sum(Tail(s))

RECURSIVE Convolve(_, _, _)
Convolve(x, i, k) ==
    IF k >= i THEN 0
    ELSE DerivKernel[k + 1] * x[i - k] + Convolve(x, i, k + 1)

\* l.95-102: deriv_trace_o1, in mV/s: the window mean is subtracted
\* (l.95-96), the centred window is filtered (l.99) and differentiated
\* (l.102: np.diff, the first difference being 0 by prepend).  The centred
\* samples are kept times the window length to stay in the integers.
Deriv(buf) ==
    LET n == Len(buf)
        total == Sum(buf)
        centred == [i \in 1..n |-> n * buf[i] - total]
    IN
    [i \in 1..n |-> IF i = 1 THEN 0 ELSE Convolve(centred, i, 0) \div n]

\* l.106-107: indices of the segment deriv_trace_o1[-check_len:]
CheckLen(chunk_len) == Max(chunk_len, MinCheckLen)
Segment(buf, chunk_len) ==
    {i \in 1..Len(buf) : i >= SliceStart(Len(buf), CheckLen(chunk_len))}

\* buffer indices of the scanned segment whose rate of change is over the
\* threshold
Spikes(buf, chunk_len) ==
    {i \in Segment(buf, chunk_len) :
        Abs(Deriv(buf)[i]) > DERIV_THRESH * 1000}

\* l.109-116: max_deriv > DERIV_THRESH
Status(buf, chunk_len) == IF Spikes(buf, chunk_len) # {} THEN 1 ELSE 0

\* history record of a blink detector cycle: the time of the last triggered
\* blink-event, whether this cycle triggered within COOLDOWN_PO_WYKRYCIU of
\* it, and whether it triggered on spikes that were all reported before
NoCycle ==
    [chunk_len |-> 0, check_len |-> 0, status |-> 0, error |-> "",
     last_trigger |-> -1, early |-> FALSE, retrigger |-> FALSE]

(* ------------------------- worker processes --------------------------- *)
\* halo_WM_client_final.py, core_unit_final.py, fourier_final.py,
\* player_final.py, player-final.py, led_controller_final.py (ZmqListener)
Workers ==
    {"blink", "core", "gesture", "player_final", "player-final", "led"}

Players == {"player_final", "player-final"}

\* What a worker does with its sockets and context once it has left its
\* loop: core_unit_final.py l.137-138 (finally: context.term()),
\* halo_WM_client_final.py l.129-130 and player_final.py l.71-75 (nothing),
\* fourier_final.py l.278-285, player-final.py l.77-80 and
\* led_controller_final.py l.148-150 (close the sockets, then term()).
Cleanup(w) ==
    CASE w = "core" -> [close |-> FALSE, term |-> TRUE]
      [] w \in {"blink", "player_final"} -> [close |-> FALSE, term |-> FALSE]
      [] OTHER -> [close |-> TRUE, term |-> TRUE]

\* context.term() returns once every socket of the context is closed and
\* waits for that otherwise
Term(open) == IF open THEN "blocked" ELSE "exited"

\* payloads a subscriber of JSON messages can receive: an object, or a JSON
\* value of another shape (array, number, string)
Payloads ==
    {[object |-> TRUE, body |-> m] : m \in MoveMsgs}
    \cup {[object |-> FALSE, body |-> {}]}


\* History record of one processed frame.
NoFrame ==
    [n |-> 0, t |-> 0, raw |-> <<0, 1>>, score |-> <<0, 1>>, sig |-> 0,
     calibrated |-> FALSE,
     cooldown |-> FALSE, prev_event |-> -1, run |-> 0, eq_run |-> 0,
     reset_from |-> 0]

LastEvent(f) == IF f.sig # 0 THEN f.t ELSE f.prev_event

\* History records of the LED listener: the receive begun last (for how
\* long it has waited, in seconds, and whether stop() had been called before
\* it began) and the status message
\* processed last (its position among the published ones, its flag, and
\* whether a newer status had been published by then).
NoRecv == [waited |-> 0, stopped |-> FALSE]

\* History record of a call of update_state by the listener: the flag it
\* was called with, the seconds it has waited for the main thread to be in
\* mainloop, and whether stop() had been called when it began.
NoCall == [flag |-> NoValue, waited |-> 0, stopped |-> FALSE]

NoStatus == [n |-> 0, flag |-> NoValue, newer |-> FALSE]

\* loader-final.py l.29-52: the list processes, in append order
processes == <<"CORE", "MOVE_DETECT", "BLINK_DETECT", "SLIDE_CTRL", "LED_GUI">>

Processes == {processes[i] : i \in 1..Len(processes)}

\* History record of the monitor loop: how it ended, the processes alive
\* when it ended, and the processes it saw dead in an iteration that did
\* not end it.
NoEnd == [how |-> "", alive |-> {}, spared |-> {}]

(* ------------------------------- Init ---------------------------------- *)
Init ==
    /\ now = 0
    /\ state = WAIT_FOR_BLINK
    /\ wait_start_time = 0
    /\ led_flag = BLINK_WAIT
    /\ move_armed = FALSE
    /\ blink_sub = <<>>
    /\ move_sub = <<>>
    /\ conflate = FALSE
    /\ out = <<[sock |-> "led_pub", val |-> BLINK_WAIT]>>
    /\ is_calibrated = FALSE
    /\ calibration_buffer = EmptyBag
    /\ baseline_power = <<1, 1>>
    /\ counter_zacisk = 0
    /\ block_until = 0
    /\ signal_to_send = 0
    /\ n_blink_pub = 0
    /\ n_move_pub = 0
    /\ last_blink = NoMsg
    /\ last_move = [msg |-> NoMsg, visit |-> 0, cmd |-> FALSE]
    /\ armed_visit = 0
    /\ entered_at = 0
    /\ n_triggered = 0
    /\ cmd_log = <<>>
    /\ frame = NoFrame
    /\ g_eeg_buffer = Zeros(BUFFER_SIZE)
    /\ b_eeg_buffer = Zeros(BUFFER_SIZE)
    /\ g_stream = <<>>
    /\ b_stream = <<>>
    /\ cycle = NoCycle
    /\ reported = {}
    /\ pc = [w \in Workers |-> IF w \in Players THEN "countdown"
                                ELSE "running"]
    /\ sockets_open = [w \in Workers |-> TRUE]
    /\ context_open = [w \in Workers |-> TRUE]
    /\ cause = [w \in Workers |-> ""]
    /\ outcome = [w \in Workers |-> ""]
    /\ led_colour = "RED"
    /\ led_running = TRUE
    /\ led_main = "starting"
    /\ led_at = "connect"
    /\ led_read = 0
    /\ led_recv = NoRecv
    /\ led_shown = NoStatus
    /\ led_call = NoCall
    /\ alive = [p \in Processes |-> TRUE]
    /\ loader_at = "monitor"
    /\ loader_i = 1
    /\ loader_end = NoEnd
    /\ loader_joined = {}
    /\ loader_sigterm = {}

(* ------------------------------ clock ---------------------------------- *)
Tick ==
    /\ now < MaxTime
    /\ now' = now + 1
    /\ UNCHANGED <<ledVars, loaderVars, coreVars, busVars, detVars, sigVars, lifeVars>>

(* ----------------------- detectors as publishers ----------------------- *)
\* halo_WM_client_final.py l.124: pub_socket.send_json({"blink": status})
PublishBlink(body) ==
    /\ n_blink_pub + n_move_pub < MaxPub
    /\ n_blink_pub' = n_blink_pub + 1
    /\ blink_sub' = Deliver(blink_sub, Envelope(n_blink_pub + 1, body))
    /\ UNCHANGED <<ledVars, loaderVars, sigVars, lifeVars, now, coreVars, detVars, move_sub, conflate, n_move_pub>>

\* fourier_final.py l.227: socket_decision.send_json({"move": signal})
SendNumbered(n, body) ==
    /\ n_move_pub' = n
    /\ move_sub' = Deliver(move_sub, Envelope(n, body))

SendDecision(body) == SendNumbered(n_move_pub + 1, body)

PublishMove(body) ==
    /\ n_blink_pub + n_move_pub < MaxPub
    /\ SendDecision(body)
    /\ UNCHANGED <<ledVars, loaderVars, sigVars, lifeVars, now, coreVars, detVars, blink_sub, conflate, n_blink_pub>>

(* --------------------- core unit: one loop iteration ------------------- *)
\* led_pub.send_json({"flag": val}) / slide_pub.send_json({"move": val})
Sent(sock, val) == [sock |-> sock, val |-> val]

\* l.72: msg.get("blink") == 1
BlinkTriggered(body) == Get(body, "blink", NoValue) = 1

\* l.83-84: time.time() - wait_start_time >= READY_TIME
ReadyElapsedWrongConstant(t, start) == t - start >= REST_TIME
ReadyElapsed(t, start) == t - start >= READY_TIME

\* l.126-127: time.time() - wait_start_time >= REST_TIME
RestElapsedAtOnce(t, start) == TRUE
RestElapsedExactly(t, start) == t - start = REST_TIME
RestElapsed(t, start) == t - start >= REST_TIME

\* l.99: msg.get("move", 0)
MoveSignal(body) == Get(body, "move", 0)

\* l.101-106: react only if armed and the signal is 1 or -1
ReactsToAnySignal(armed, sig) == armed
Reacts(armed, sig) == armed /\ (sig = 1 \/ sig = -1)

\* case 0: WAIT_FOR_BLINK (l.68-79); zmq.Again leaves everything unchanged
CoreWaitForBlink ==
    /\ state = WAIT_FOR_BLINK
    /\ blink_sub # <<>>
    /\ LET msg == Head(blink_sub) IN
       /\ blink_sub' = Tail(blink_sub)
       /\ last_blink' = msg
       /\ IF BlinkTriggered(msg.body)
          THEN /\ state' = PREPARE_TO_LISTEN
               /\ wait_start_time' = now
               /\ entered_at' = now
               /\ n_triggered' = n_triggered + 1
          ELSE UNCHANGED <<state, wait_start_time, entered_at, n_triggered>>
    /\ UNCHANGED <<ledVars, loaderVars, sigVars, lifeVars, now, led_flag,
                   move_armed, out, last_move, armed_visit, cmd_log,
                   move_sub, conflate, n_blink_pub, n_move_pub, detVars>>

CorePrepareNotArming ==
    /\ state = PREPARE_TO_LISTEN
    /\ ReadyElapsed(now, wait_start_time)
    /\ state' = WAIT_FOR_MOVE
    /\ led_flag' = READY
    /\ out' = Append(out, Sent("led_pub", READY))
    /\ move_armed' = move_armed
    /\ armed_visit' = armed_visit + 1
    /\ entered_at' = now
    /\ UNCHANGED <<ledVars, loaderVars, sigVars, lifeVars, now,
                   wait_start_time, last_blink, last_move, n_triggered,
                   cmd_log, busVars,
                   detVars>>

\* case 1: PREPARE_TO_LISTEN (l.82-93)
CorePrepare ==
    /\ state = PREPARE_TO_LISTEN
    /\ ReadyElapsed(now, wait_start_time)
    /\ state' = WAIT_FOR_MOVE
    /\ led_flag' = READY
    /\ out' = Append(out, Sent("led_pub", READY))
    /\ move_armed' = TRUE
    /\ armed_visit' = armed_visit + 1
    /\ entered_at' = now
    /\ UNCHANGED <<ledVars, loaderVars, sigVars, lifeVars, now,
                   wait_start_time, last_blink, last_move, n_triggered,
                   cmd_log, busVars,
                   detVars>>

\* case 2: WAIT_FOR_MOVE (l.96-122)
CoreWaitForMove ==
    /\ state = WAIT_FOR_MOVE
    /\ move_sub # <<>>
    /\ LET msg == Head(move_sub)
           move_signal == MoveSignal(msg.body)
           react == Reacts(move_armed, move_signal)
       IN
       /\ move_sub' = Tail(move_sub)
       /\ last_move' = [msg |-> msg, visit |-> armed_visit, cmd |-> react]
       /\ IF react
          THEN /\ out' = out \o <<Sent("slide_pub", move_signal),
                                   Sent("led_pub", REST)>>
               /\ state' = RESTING
               /\ wait_start_time' = now
               /\ move_armed' = FALSE
               /\ led_flag' = REST
               /\ entered_at' = now
               /\ cmd_log' = Append(cmd_log, [t |-> now,
                                              triggered |-> n_triggered])
          ELSE UNCHANGED <<out, state, wait_start_time, move_armed,
                           led_flag, entered_at, cmd_log>>
    /\ UNCHANGED <<ledVars, loaderVars, sigVars, lifeVars, now, last_blink,
                   armed_visit, n_triggered, blink_sub, conflate,
                   n_blink_pub, n_move_pub, detVars>>

CoreRestingSkipsBlinkWait ==
    /\ state = RESTING
    /\ RestElapsed(now, wait_start_time)
    /\ led_flag' = BLINK_WAIT
    /\ out' = Append(out, Sent("led_pub", BLINK_WAIT))
    /\ state' = PREPARE_TO_LISTEN
    /\ entered_at' = now
    /\ UNCHANGED <<ledVars, loaderVars, sigVars, lifeVars, now,
                   wait_start_time, move_armed, last_blink, last_move,
                   n_triggered, cmd_log,
                   armed_visit, busVars, detVars>>

\* case 3: RESTING (l.125-133)
CoreResting ==
    /\ state = RESTING
    /\ RestElapsed(now, wait_start_time)
    /\ led_flag' = BLINK_WAIT
    /\ out' = Append(out, Sent("led_pub", BLINK_WAIT))
    /\ state' = WAIT_FOR_BLINK
    /\ entered_at' = now
    /\ UNCHANGED <<ledVars, loaderVars, sigVars, lifeVars, now,
                   wait_start_time, move_armed, last_blink, last_move,
                   n_triggered, cmd_log,
                   armed_visit, busVars, detVars>>

(* ------------- gesture detector: one frame with new data --------------- *)
\* The calibration and detection part of update_plot, l.178-224, raw being
\* the band power of the analysis window (a frame without new samples
\* returns at l.131 or l.136 and changes nothing)
FrameStep(raw, n1) ==
    LET current_time == now
        elapsed == current_time - start_time
        c == Calibrate(is_calibrated, calibration_buffer, baseline_power,
                       elapsed, raw)
        normalized_score ==
            IF is_calibrated THEN Normalize(raw, baseline_power)
            ELSE IF elapsed > CZAS_KALIBRACJI THEN <<1, 1>> ELSE <<0, 1>>
        d == Detect(is_calibrated, raw, baseline_power, current_time,
                    counter_zacisk, block_until)
        deciding == is_calibrated /\ ~(current_time < block_until)
        prev == IF frame.sig # 0 THEN 0 ELSE frame.run
        prevEq == IF frame.sig # 0 THEN 0 ELSE frame.eq_run
    IN
    /\ is_calibrated' = c.cal
    /\ calibration_buffer' = c.buf
    /\ baseline_power' = c.base
    /\ counter_zacisk' = d.cnt
    /\ block_until' = d.blk
    /\ signal_to_send' = d.sig
    /\ frame' = [n |-> n1, t |-> current_time, raw |-> raw,
                 score |-> normalized_score, sig |-> d.sig,
                 calibrated |-> is_calibrated,
                 cooldown |-> is_calibrated /\ current_time < block_until,
                 prev_event |-> LastEvent(frame),
                 run |-> IF deciding
                            /\ RGt(normalized_score, MNOZNIK_DOLNY_Zeby)
                            /\ ~RGt(normalized_score, MNOZNIK_GORNY_Glowa)
                         THEN prev + 1 ELSE 0,
                 eq_run |-> IF deciding
                               /\ REq(normalized_score, MNOZNIK_DOLNY_Zeby)
                            THEN prevEq + 1 ELSE 0,
                 reset_from |-> IF d.sig = -1 THEN counter_zacisk ELSE 0]

\* Frames are explored while the accumulator is within MaxCalib samples.
WithinCalibrationBound(raw) ==
    \/ is_calibrated
    \/ BagCardinality(Accumulate(calibration_buffer, raw)) <= MaxCalib

\* l.157-164: the chunk d of new samples is shifted into the rolling buffer;
\* g_stream keeps the last MaxStream samples fed so far
Latest(s, n) == IF Len(s) <= n THEN s ELSE LastN(s, n)

BufferStep(d) ==
    /\ g_eeg_buffer' = GestureRoll(g_eeg_buffer, d)
    /\ g_stream' = Latest(g_stream \o d, MaxStream)

\* update_plot for a frame that brings the chunk d of new samples (l.137-227):
\* buffer update, calibration or detection on the band power raw of the
\* analysis window (l.167-176), and the decision sent
UpdatePlot(raw, d) ==
    /\ frame.n < MaxFrames
    /\ WithinCalibrationBound(raw)
    /\ BufferStep(d)
    /\ FrameStep(raw, frame.n + 1)
    /\ SendDecision({<<"move", signal_to_send'>>})
    /\ UNCHANGED <<ledVars, loaderVars, lifeVars, now, coreVars, blink_sub,
                   conflate, n_blink_pub, b_eeg_buffer, b_stream, cycle,
                   reported>>

\* The chunk of a frame in the runs that explore the detection logic: one
\* new sample.
FrameChunks == {<<100>>}

\* Band powers of the frames of the collecting phase: none at all (a flat
\* signal), or some positive power of a resting signal.
CollectingScores == {<<0, 1>>, <<1, 2>>, <<1, 1>>}

\* A frame of the collecting phase (l.137-198, l.227).  Such frames arrive
\* without end, so the history counters of frames and of decisions sent
\* only alternate between 1 and 2.
CollectingFrame(raw, d) ==
    /\ ~is_calibrated
    /\ WithinCalibrationBound(raw)
    /\ BufferStep(d)
    /\ FrameStep(raw, (frame.n % 2) + 1)
    /\ SendNumbered((n_move_pub % 2) + 1, {<<"move", signal_to_send'>>})
    /\ UNCHANGED <<ledVars, loaderVars, lifeVars, now, coreVars, blink_sub,
                   conflate, n_blink_pub, b_eeg_buffer, b_stream, cycle,
                   reported>>

(* ---------------------- leaving the worker loop ------------------------ *)
\* Worker w leaves its loop, by KeyboardInterrupt or by an exception, and
\* runs the cleanup code of its exit path.
Leave(w, how) ==
    LET c == Cleanup(w)
        open == sockets_open[w] /\ ~c.close
    IN
    /\ sockets_open' = [sockets_open EXCEPT ![w] = open]
    /\ pc' = [pc EXCEPT ![w] = IF c.term THEN Term(open) ELSE "exited"]
    /\ context_open' = [context_open EXCEPT ![w] = ~(c.term /\ ~open)]
    /\ cause' = [cause EXCEPT ![w] = how]

\* player_final.py / player-final.py l.40-43: the countdown before the loop
CountdownDone(w) ==
    /\ pc[w] = "countdown"
    /\ pc' = [pc EXCEPT ![w] = "running"]
    /\ UNCHANGED <<ledVars, loaderVars, now, coreVars, busVars, detVars,
                   sigVars, sockets_open, context_open, cause, outcome>>

\* l.44-46: KeyboardInterrupt during the countdown, sys.exit(0) with the
\* socket connected and the context not terminated
CountdownAborted(w) ==
    /\ pc[w] = "countdown"
    /\ pc' = [pc EXCEPT ![w] = "exited"]
    /\ cause' = [cause EXCEPT ![w] = "interrupt"]
    /\ UNCHANGED <<ledVars, loaderVars, now, coreVars, busVars, detVars,
                   sigVars, sockets_open, context_open, outcome>>

\* Ctrl+C (or closing the plot window) while w is in its loop.  The LED
\* controller handles Ctrl+C in signal_handler (LedSignalHandler,
\* LedMainLeaves); its listener thread leaves by the steps LedLoopTest,
\* LedClose, LedTerm.
Interrupt(w) ==
    /\ w # "led"
    /\ pc[w] = "running"
    /\ Leave(w, "interrupt")
    /\ UNCHANGED <<ledVars, loaderVars, now, coreVars, busVars, detVars, sigVars, outcome>>

\* core_unit_final.py l.71-72 / l.98-99: the message read from a subscription
\* is not an object, msg.get raises AttributeError; the loop has no handler
\* for it (l.135) and the finally clause runs.
CoreReadsMalformed ==
    /\ pc["core"] = "running"
    /\ state \in {WAIT_FOR_BLINK, WAIT_FOR_MOVE}
    /\ Leave("core", "error")
    /\ outcome' = [outcome EXCEPT !["core"] = "AttributeError"]
    /\ UNCHANGED <<ledVars, loaderVars, now, coreVars, busVars, detVars, sigVars>>

\* player_final.py l.51-75 / player-final.py l.51-75: one loop iteration
\* that receives msg.  Both catch Exception and print it; player-final.py
\* then breaks out of the loop.
PlayerCycle(w, msg) ==
    /\ pc[w] = "running"
    /\ IF ~msg.object
       THEN /\ outcome' = [outcome EXCEPT ![w] = "AttributeError"]
            /\ IF w = "player-final" THEN Leave(w, "error")
               ELSE UNCHANGED <<pc, sockets_open, context_open, cause>>
       ELSE /\ outcome' =
                 [outcome EXCEPT ![w] =
                     CASE Get(msg.body, "move", 0) = 1 -> "right"
                       [] Get(msg.body, "move", 0) = -1 -> "left"
                       [] OTHER -> "none"]
            /\ UNCHANGED <<pc, sockets_open, context_open, cause>>
    /\ UNCHANGED <<ledVars, loaderVars, now, coreVars, busVars, detVars, sigVars>>

(* ------------------- blink detector: one loop cycle -------------------- *)
\* an exception that no handler of run_blink_detector catches (l.129 only
\* handles KeyboardInterrupt) ends the process
BlinkRaises(error) ==
    /\ Leave("blink", "error")
    /\ outcome' = [outcome EXCEPT !["blink"] = error]
    /\ cycle' = [NoCycle EXCEPT !.error = error,
                                !.last_trigger = cycle.last_trigger]
    /\ UNCHANGED <<reported, blink_sub, n_blink_pub>>

\* l.124: pub_socket.send_json({"blink": status})
SendBlink(body) ==
    /\ n_blink_pub' = n_blink_pub + 1
    /\ blink_sub' = Deliver(blink_sub, Envelope(n_blink_pub + 1, body))

\* halo_WM_client_final.py l.45-127 with the packets drained at l.47-56
BlinkCycle(pkts) ==
    /\ pc["blink"] = "running"
    /\ IF \E i \in 1..Len(pkts) : ~HasFields(pkts[i])
       THEN /\ BlinkRaises("KeyError")
            /\ UNCHANGED <<b_eeg_buffer, b_stream>>
       ELSE LET new_block == Concatenate(pkts)
                chunk_len == Len(new_block)
                r == BlinkRoll(b_eeg_buffer, new_block)
                status == Status(r.buf, chunk_len)
                \* stream positions of the spikes this cycle scanned
                scanned == {Len(b_stream) + chunk_len - BUFFER_SIZE + i :
                               i \in Spikes(r.buf, chunk_len)}
            IN
            /\ Len(b_stream) + chunk_len <= MaxStream
            /\ b_eeg_buffer' = r.buf
            /\ b_stream' = b_stream \o new_block
            /\ IF ~r.ok
               THEN BlinkRaises("ValueError")
               ELSE /\ SendBlink({<<"blink", status>>})
                    /\ cycle' =
                         [chunk_len |-> chunk_len,
                          check_len |-> CheckLen(chunk_len),
                          status |-> status, error |-> "",
                          last_trigger |-> IF status = 1 THEN now
                                           ELSE cycle.last_trigger,
                          early |-> /\ status = 1
                                    /\ cycle.last_trigger >= 0
                                    /\ now - cycle.last_trigger
                                          < COOLDOWN_PO_WYKRYCIU,
                          retrigger |-> status = 1 /\ scanned \subseteq reported]
                    /\ reported' = IF status = 1 THEN reported \cup scanned
                                   ELSE reported
                    /\ UNCHANGED lifeVars
    /\ UNCHANGED <<ledVars, loaderVars, now, coreVars, detVars, move_sub, conflate, n_move_pub,
                   g_eeg_buffer, g_stream>>

(* --------------------------- LED controller --------------------------- *)
\* led_controller_final.py l.13-19: class LedColor
LedColor == {"RED", "ORANGE", "GREEN"}

\* LedOverlay.update_state(flag_code), l.75-94: the colour the LED is filled
\* with
update_state(flag_code) ==
    CASE flag_code = 0 -> "RED"
      [] flag_code = 1 -> "ORANGE"
      [] flag_code = 2 -> "GREEN"
      [] OTHER -> "RED"

\* The colour the core unit means a status code to be shown with:
\* core_unit_final.py l.88 "Set LED to Green" (READY), l.117 "Set LED to
\* Orange (Rest)" (REST), l.128 "Back to Red LED" (BLINK_WAIT).
Intended(flag) ==
    CASE flag = READY -> "GREEN"
      [] flag = REST -> "ORANGE"
      [] OTHER -> "RED"

\* l.123: self.socket.setsockopt(zmq.RCVTIMEO, 1000), in seconds
RCVTIMEO == 1

\* The status messages the core unit published on led_pub so far, in publish
\* order.
StatusLog(log) == SelectSeq(log, LAMBDA e : e.sock = "led_pub")

\* The status messages waiting in the SUB socket of the listener: those
\* published since it connected and subscribed (l.127-128) and not yet
\* handed over.  The socket sets no ZMQ_CONFLATE (l.120-128) and its
\* high-water mark (1000) is beyond these runs, so it hands the messages
\* over one by one in publish order.
Pending == led_read < Len(StatusLog(out))

\* l.130: while self.running
KeepsListening(running) == running

\* The time a call into Tk from the listener thread waits for the main
\* thread to be in mainloop before it raises RuntimeError, in seconds
MAINLOOP_WAIT == 1

\* Whether the Tk interpreter takes calls from other threads: from the
\* moment root.mainloop() is entered (l.98, l.179) until it has returned,
\* the signal handler (l.169-173) running inside it
Dispatching(main) == main \in {"mainloop", "handler"}

\* l.127-128: the listener connects and subscribes; status messages
\* published before are not delivered to it
LedConnect ==
    /\ led_at = "connect"
    /\ led_at' = "while"
    /\ led_read' = Len(StatusLog(out))
    /\ UNCHANGED <<now, coreVars, busVars, detVars, sigVars, lifeVars,
                   loaderVars, led_colour, led_running, led_main, led_recv,
                   led_call, led_shown>>

\* l.130: the loop test of the listener thread; when it fails the thread
\* falls through to the finally clause (l.148)
LedLoopTest ==
    /\ pc["led"] = "running"
    /\ led_at = "while"
    /\ IF KeepsListening(led_running)
       THEN /\ led_at' = "recv"
            /\ led_recv' = [waited |-> 0, stopped |-> ~led_running]
            /\ UNCHANGED cause
       ELSE /\ led_at' = "finally"
            /\ cause' = [cause EXCEPT !["led"] = "stop"]
            /\ UNCHANGED led_recv
    /\ UNCHANGED <<now, coreVars, busVars, detVars, sigVars, loaderVars,
                   pc, sockets_open, context_open, outcome, led_colour,
                   led_running, led_main, led_read, led_call, led_shown>>

\* l.133-138: recv_json returns the next status message; when the message
\* carries a flag the listener calls update_state, whose canvas.itemconfig
\* (l.94) is a call into Tk from a thread other than the main thread
LedRecvMsg ==
    /\ led_at = "recv"
    /\ Pending
    /\ LET msg == {<<"flag", StatusLog(out)[led_read + 1].val>>}
           flag == Get(msg, "flag", NoValue)
       IN
       IF flag # NoValue
       THEN /\ led_at' = "update"
            /\ led_call' = [flag |-> flag, waited |-> 0,
                            stopped |-> ~led_running]
       ELSE /\ led_at' = "while"
            /\ UNCHANGED led_call
    /\ led_read' = led_read + 1
    /\ UNCHANGED <<now, coreVars, busVars, detVars, sigVars, lifeVars,
                   loaderVars, led_colour, led_running, led_main, led_recv,
                   led_shown>>

\* l.94: the interpreter takes calls, so the call is handed to the main
\* thread and the listener waits until it has been carried out
LedCallQueued ==
    /\ led_at = "update"
    /\ Dispatching(led_main)
    /\ led_at' = "queued"
    /\ UNCHANGED <<now, coreVars, busVars, detVars, sigVars, lifeVars,
                   loaderVars, led_colour, led_running, led_main, led_read,
                   led_recv, led_call, led_shown>>

\* l.85-94: the main thread, serving events in mainloop, carries out the
\* call: the LED is filled with the colour of the flag and update_state
\* returns.  A call handed over while the signal handler runs is not served
\* any more, mainloop being left when the handler ends.
LedUpdateDone ==
    /\ led_at = "queued"
    /\ led_main = "mainloop"
    /\ led_colour' = update_state(led_call.flag)
    /\ led_shown' = [n |-> led_read, flag |-> led_call.flag,
                     newer |-> led_read < Len(StatusLog(out))]
    /\ led_at' = "while"
    /\ UNCHANGED <<now, coreVars, busVars, detVars, sigVars, lifeVars,
                   loaderVars, led_running, led_main, led_read, led_recv,
                   led_call>>

\* l.138 -> l.94, l.146-147: the call has waited MAINLOOP_WAIT for a main
\* thread that is not in mainloop and raises RuntimeError ("main thread is
\* not in main loop"); the colour stays, the outer handler prints the error
\* and the thread continues with the finally clause
LedUpdateRaises ==
    /\ led_at = "update"
    /\ ~Dispatching(led_main)
    /\ led_call.waited >= MAINLOOP_WAIT
    /\ led_at' = "finally"
    /\ cause' = [cause EXCEPT !["led"] = "error"]
    /\ outcome' = [outcome EXCEPT !["led"] = "RuntimeError"]
    /\ UNCHANGED <<now, coreVars, busVars, detVars, sigVars, loaderVars,
                   pc, sockets_open, context_open, led_colour, led_running,
                   led_main, led_read, led_recv, led_call, led_shown>>

\* l.140-142: no message within RCVTIMEO, zmq.Again, continue
LedRecvAgain ==
    /\ led_at = "recv"
    /\ ~Pending
    /\ led_recv.waited >= RCVTIMEO
    /\ led_at' = "while"
    /\ UNCHANGED <<now, coreVars, busVars, detVars, sigVars, lifeVars,
                   loaderVars, led_colour, led_running, led_main, led_read,
                   led_recv, led_call, led_shown>>

\* exceptions a receive can end with, other than zmq.Again
LedErrors == {"ContextTerminated", "AttributeError"}

\* l.143-147: ContextTerminated breaks out of the loop, any other exception
\* reaches the outer handler; both continue with the finally clause
LedRecvRaises(err) ==
    /\ led_at = "recv"
    /\ led_at' = "finally"
    /\ cause' = [cause EXCEPT !["led"] =
                    IF err = "ContextTerminated" THEN "terminated"
                    ELSE "error"]
    /\ outcome' = [outcome EXCEPT !["led"] = err]
    /\ UNCHANGED <<now, coreVars, busVars, detVars, sigVars, loaderVars,
                   pc, sockets_open, context_open, led_colour, led_running,
                   led_main, led_read, led_recv, led_call, led_shown>>

\* l.149: if self.socket: self.socket.close()
LedClose ==
    /\ led_at = "finally"
    /\ sockets_open' = [sockets_open EXCEPT !["led"] = FALSE]
    /\ led_at' = "term"
    /\ UNCHANGED <<now, coreVars, busVars, detVars, sigVars, loaderVars,
                   pc, context_open, cause, outcome, led_colour, led_running,
                   led_main, led_read, led_recv, led_call, led_shown>>

\* l.150: if self.context: self.context.term()
LedTerm ==
    /\ led_at = "term"
    /\ pc["led"] = "running"
    /\ pc' = [pc EXCEPT !["led"] = Term(sockets_open["led"])]
    /\ context_open' = [context_open EXCEPT !["led"] = sockets_open["led"]]
    /\ UNCHANGED <<now, coreVars, busVars, detVars, sigVars, loaderVars,
                   sockets_open, cause, outcome, ledVars>>

\* l.179 -> l.98: the main thread enters root.mainloop()
LedMainloop ==
    /\ led_main = "starting"
    /\ led_main' = "mainloop"
    /\ UNCHANGED <<now, coreVars, busVars, detVars, sigVars, lifeVars,
                   loaderVars, led_colour, led_running, led_at, led_read,
                   led_recv, led_call, led_shown>>

\* l.169-171: Ctrl+C while the main thread is in mainloop: signal_handler
\* begins and calls listener.stop() (l.152-154)
LedSignalHandler ==
    /\ led_main = "mainloop"
    /\ led_main' = "handler"
    /\ led_running' = FALSE
    /\ UNCHANGED <<now, coreVars, busVars, detVars, sigVars, lifeVars,
                   loaderVars, led_colour, led_at, led_read, led_recv,
                   led_call, led_shown>>

\* l.172-173, l.182-185: gui.stop() and sys.exit(0) end mainloop; the
\* finally clause calls listener.stop() again and joins the thread for at
\* most two seconds
LedMainLeaves ==
    /\ led_main = "handler"
    /\ led_main' = "left"
    /\ led_running' = FALSE
    /\ UNCHANGED <<now, coreVars, busVars, detVars, sigVars, lifeVars,
                   loaderVars, led_colour, led_at, led_read, led_recv,
                   led_call, led_shown>>

\* The clock while the listener runs: a receive returns once RCVTIMEO has
\* passed (l.123) and a call into Tk that waits for mainloop is given up
\* once MAINLOOP_WAIT has passed, so time does not pass beyond the timeout
\* of a receive or of such a wait in progress.
LedTick ==
    /\ now < MaxLedTime
    /\ led_at = "recv" => led_recv.waited < RCVTIMEO
    /\ led_at = "update" => led_call.waited < MAINLOOP_WAIT
    /\ now' = now + 1
    /\ led_recv' = IF led_at = "recv"
                   THEN [led_recv EXCEPT !.waited = @ + 1]
                   ELSE led_recv
    /\ led_call' = IF led_at = "update"
                   THEN [led_call EXCEPT !.waited = @ + 1]
                   ELSE led_call
    /\ UNCHANGED <<coreVars, busVars, detVars, sigVars, lifeVars, loaderVars,
                   led_colour, led_running, led_main, led_at, led_read,
                   led_shown>>

(* ------------------------------- loader -------------------------------- *)
Living(a) == {p \in Processes : a[p]}

\* loader-final.py l.83-89: the two tests that break out of the monitor loop
MonitorBreaksOnAny(a) == \E p \in Processes : ~a[p]
MonitorBreaks(a) == ~a["MOVE_DETECT"] \/ ~a["CORE"]

\* A worker process ends: its target returned or raised
\* (run_process_wrapper, l.12-22), or it was ended by the SIGTERM of
\* terminate().
ProcessExits(p) ==
    /\ alive[p]
    /\ alive' = [alive EXCEPT ![p] = FALSE]
    /\ UNCHANGED <<now, coreVars, busVars, detVars, sigVars, lifeVars,
                   ledVars, loader_at, loader_i, loader_end, loader_sigterm,
                   loader_joined>>

\* l.80-89: one iteration of the monitor loop
MonitorCycle ==
    /\ loader_at = "monitor"
    /\ IF MonitorBreaks(alive)
       THEN /\ loader_at' = "terminate"
            /\ loader_end' = [loader_end EXCEPT !.how = "break",
                                                !.alive = Living(alive)]
       ELSE /\ loader_end' =
                 [loader_end EXCEPT !.spared = @ \cup (Processes \ Living(alive))]
            /\ UNCHANGED loader_at
    /\ UNCHANGED <<now, coreVars, busVars, detVars, sigVars, lifeVars,
                   ledVars, alive, loader_i, loader_sigterm, loader_joined>>

\* l.91-92: KeyboardInterrupt inside the monitor loop
MonitorInterrupted ==
    /\ loader_at = "monitor"
    /\ loader_at' = "terminate"
    /\ loader_end' = [loader_end EXCEPT !.how = "interrupt",
                                        !.alive = Living(alive)]
    /\ UNCHANGED <<now, coreVars, busVars, detVars, sigVars, lifeVars,
                   ledVars, alive, loader_i, loader_sigterm, loader_joined>>

\* l.95-97: the termination loop reaches a process; one that is alive is
\* sent SIGTERM by terminate() and the loader begins to join it, one that
\* is not alive is passed over
Terminate ==
    /\ loader_at = "terminate"
    /\ loader_i <= Len(processes)
    /\ LET p == processes[loader_i] IN
       IF alive[p]
       THEN /\ loader_sigterm' = loader_sigterm \cup {p}
            /\ loader_at' = "join"
            /\ UNCHANGED loader_i
       ELSE /\ loader_i' = loader_i + 1
            /\ UNCHANGED <<loader_sigterm, loader_at>>
    /\ UNCHANGED <<now, coreVars, busVars, detVars, sigVars, lifeVars,
                   ledVars, alive, loader_end, loader_joined>>

\* l.98: p.join() returns once the process has ended
Join ==
    /\ loader_at = "join"
    /\ LET p == processes[loader_i] IN
       /\ ~alive[p]
       /\ loader_joined' = loader_joined \cup {p}
    /\ loader_i' = loader_i + 1
    /\ loader_at' = "terminate"
    /\ UNCHANGED <<now, coreVars, busVars, detVars, sigVars, lifeVars,
                   ledVars, alive, loader_end, loader_sigterm>>

\* l.100: print(">>> System Halted.")
SystemHalted ==
    /\ loader_at = "terminate"
    /\ loader_i > Len(processes)
    /\ loader_at' = "halted"
    /\ UNCHANGED <<now, coreVars, busVars, detVars, sigVars, lifeVars,
                   ledVars, alive, loader_i, loader_end, loader_sigterm,
                   loader_joined>>

\* l.95-98 are outside the try statement: a KeyboardInterrupt during the
\* termination loop, a join() in progress included, ends the loader
\* without the report of l.100
TerminationInterrupted ==
    /\ loader_at \in {"terminate", "join"}
    /\ loader_at' = "aborted"
    /\ UNCHANGED <<now, coreVars, busVars, detVars, sigVars, lifeVars,
                   ledVars, alive, loader_i, loader_end, loader_sigterm,
                   loader_joined>>

(* --------------------------- specifications ---------------------------- *)
NextDetector ==
    \/ Tick
    \/ \E raw \in RawScores, d \in FrameChunks : UpdatePlot(raw, d)

SpecDetector == Init /\ [][NextDetector]_vars

\* The gesture detector on its own until it is calibrated, with the clock
\* advancing and batches with new samples arriving again and again
\* (FuncAnimation, interval=50).
NextCalibration ==
    \/ Tick
    \/ \E raw \in CollectingScores, d \in FrameChunks : CollectingFrame(raw, d)

SpecCalibration ==
    /\ Init
    /\ [][NextCalibration]_vars
    /\ WF_vars(Tick)
    /\ WF_vars(\E raw \in CollectingScores, d \in FrameChunks :
                  CollectingFrame(raw, d))

NextCore ==
    \/ Tick
    \/ \E b \in BlinkMsgs : PublishBlink(b)
    \/ \E m \in MoveMsgs : PublishMove(m)
    \/ CoreWaitForBlink
    \/ CorePrepare
    \/ CoreWaitForMove
    \/ CoreResting

SpecCore == Init /\ [][NextCore]_vars

\* One iteration of the loop of l.62-133 that changes something
CoreLoop ==
    \/ CoreWaitForBlink
    \/ CorePrepare
    \/ CoreWaitForMove
    \/ CoreResting

\* Events of any kind published at any moment, MaxArrive of them in a run
BlinkArrives(body) ==
    /\ n_blink_pub + n_move_pub < MaxArrive
    /\ PublishBlink(body)

MoveArrives(body) ==
    /\ n_blink_pub + n_move_pub < MaxArrive
    /\ PublishMove(body)

NextCoreFair ==
    \/ Tick
    \/ \E b \in BlinkMsgs : BlinkArrives(b)
    \/ \E m \in MoveMsgs : MoveArrives(m)
    \/ CoreLoop

\* The core unit with its loop running again and again (l.62-63) and the
\* clock advancing.
SpecCoreFair ==
    /\ Init
    /\ [][NextCoreFair]_vars
    /\ WF_vars(Tick)
    /\ WF_vars(CoreLoop)

\* The rolling buffers of the two detectors, fed chunk by chunk; the band
\* power of the gesture detector's frames is 0.0, as for a buffer shorter
\* than the FFT window (l.172-176).
NextBuffers ==
    \/ \E d \in Chunks : UpdatePlot(<<0, 1>>, d)
    \/ \E pkts \in PacketLists : BlinkCycle(pkts)

SpecBuffers == Init /\ [][NextBuffers]_vars

\* The blink detector on its own, with the clock advancing.
NextBlinker ==
    \/ Tick
    \/ \E pkts \in PacketLists : BlinkCycle(pkts)

SpecBlinker == Init /\ [][NextBlinker]_vars

\* The workers meeting malformed payloads and being interrupted.
NextWorkers ==
    \/ \E w \in Workers \ {"led"} : Interrupt(w)
    \/ \E w \in Players : CountdownDone(w)
    \/ \E w \in Players : CountdownAborted(w)
    \/ \E m \in MalformedPackets : BlinkCycle(<<m>>)
    \/ CoreReadsMalformed
    \/ \E w \in Players, msg \in Payloads : PlayerCycle(w, msg)

SpecWorkers == Init /\ [][NextWorkers]_vars

\* Events of any kind published at any moment while the LED listens,
\* MaxEvents of them in a run
BlinkEvent(body) ==
    /\ n_blink_pub + n_move_pub < MaxEvents
    /\ PublishBlink(body)

MoveEvent(body) ==
    /\ n_blink_pub + n_move_pub < MaxEvents
    /\ PublishMove(body)

\* The core unit publishing statuses and the LED controller: its listener
\* thread taking them and its main thread showing them, with Ctrl+C at any
\* moment of mainloop.
NextLed ==
    \/ LedTick
    \/ \E b \in BlinkMsgs : BlinkEvent(b)
    \/ \E m \in MoveMsgs : MoveEvent(m)
    \/ CoreWaitForBlink
    \/ CorePrepare
    \/ CoreWaitForMove
    \/ CoreResting
    \/ LedConnect
    \/ LedLoopTest
    \/ LedRecvMsg
    \/ LedCallQueued
    \/ LedUpdateDone
    \/ LedUpdateRaises
    \/ LedRecvAgain
    \/ \E err \in LedErrors : LedRecvRaises(err)
    \/ LedClose
    \/ LedTerm
    \/ LedMainloop
    \/ LedSignalHandler
    \/ LedMainLeaves

SpecLed == Init /\ [][NextLed]_vars

\* The loader after the start sequence, with worker processes ending on
\* their own at any moment.
NextLoader ==
    \/ \E p \in Processes : ProcessExits(p)
    \/ MonitorCycle
    \/ MonitorInterrupted
    \/ Terminate
    \/ Join
    \/ SystemHalted
    \/ TerminationInterrupted

SpecLoader == Init /\ [][NextLoader]_vars

(* ============================ properties =============================== *)
IsCommand(e) == e.sock = "slide_pub"

Commands(log) == {i \in 1..Len(log) : IsCommand(log[i])}

Members(sub) == {sub[i] : i \in 1..Len(sub)}

\* The core unit consumed a move-event in this step.
ReadMove == last_move' # last_move

ReadBlink == last_blink' # last_blink

(* ------------------------------- C1 ------------------------------------ *)
\* C1: a move-event published while the mode is BLINK_WAIT, PREPARE or
\* RESTING never produces a command: whenever the last move-event read
\* produced a command, it had been published while the mode was ARMED.
C1_StaleMoveProducesNoCommand ==
    last_move.cmd => last_move.msg.st = WAIT_FOR_MOVE

(* ------------------------------- C2 ------------------------------------ *)
\* C2: the mode starts in BLINK_WAIT and every mode change is one of
\* BLINK_WAIT->PREPARE, PREPARE->ARMED, ARMED->RESTING, RESTING->BLINK_WAIT.
C2_CycleOnly ==
    /\ state = WAIT_FOR_BLINK
    /\ [][state' # state =>
            <<state, state'>> \in {<<WAIT_FOR_BLINK, PREPARE_TO_LISTEN>>,
                                   <<PREPARE_TO_LISTEN, WAIT_FOR_MOVE>>,
                                   <<WAIT_FOR_MOVE, RESTING>>,
                                   <<RESTING, WAIT_FOR_BLINK>>}]_vars

\* a second cycle has started after a complete first one
C2_Witness ==
    /\ state = PREPARE_TO_LISTEN
    /\ armed_visit = 1
    /\ Commands(out) # {}

(* ------------------------------- C3 ------------------------------------ *)
\* C3: a command is published only in ARMED, only on consuming a move-event
\* with direction d in {-1, 1}, carries d, is followed in the same step by
\* status REST, and the mode becomes RESTING; a move-event with direction 0
\* or without a direction publishes nothing and leaves the mode ARMED.
C3_CommandOnlyWhenArmed ==
    [][/\ (Commands(out') # Commands(out)) =>
            /\ state = WAIT_FOR_MOVE
            /\ ReadMove
            /\ last_move'.msg = Head(move_sub)
            /\ MoveSignal(last_move'.msg.body) \in {-1, 1}
            /\ out' = out \o <<Sent("slide_pub",
                                    MoveSignal(last_move'.msg.body)),
                               Sent("led_pub", REST)>>
            /\ state' = RESTING
       /\ (ReadMove /\ MoveSignal(last_move'.msg.body) \notin {-1, 1}) =>
            /\ state = WAIT_FOR_MOVE
            /\ out' = out
            /\ state' = WAIT_FOR_MOVE]_vars

\* the second move-event published produced a command, then status REST
C3_Witness ==
    /\ state = RESTING
    /\ last_move.cmd
    /\ last_move.msg.id = 2
    /\ out[Len(out)] = Sent("led_pub", REST)
    /\ IsCommand(out[Len(out) - 1])

(* ------------------------------- C4 ------------------------------------ *)
\* C4: at most one command is published per visit to ARMED, and a move-event
\* delivered while ARMED that did not produce the command of that visit
\* produces none in a later visit either.
C4_OneCommandPerArmedVisit ==
    /\ Cardinality(Commands(out)) <= armed_visit
    /\ (last_move.cmd /\ last_move.msg.st = WAIT_FOR_MOVE) =>
            last_move.msg.visit = last_move.visit

(* ------------------------------- C5 ------------------------------------ *)
\* C5: PREPARE is left only to ARMED and only once ready_seconds have
\* elapsed since its entry, RESTING only to BLINK_WAIT and only once
\* rest_seconds have elapsed; each such step publishes exactly one status
\* (READY, resp. BLINK_WAIT); in PREPARE and RESTING no message is consumed.
C5_TimedModes ==
    [][/\ (state = PREPARE_TO_LISTEN /\ state' # state) =>
            /\ state' = WAIT_FOR_MOVE
            /\ now - entered_at >= READY_TIME
            /\ out' = Append(out, Sent("led_pub", READY))
       /\ (state = RESTING /\ state' # state) =>
            /\ state' = WAIT_FOR_BLINK
            /\ now - entered_at >= REST_TIME
            /\ out' = Append(out, Sent("led_pub", BLINK_WAIT))
       /\ (state \in {PREPARE_TO_LISTEN, RESTING}) =>
            /\ ~ReadMove
            /\ ~ReadBlink
            /\ Len(move_sub') >= Len(move_sub)
            /\ Len(blink_sub') >= Len(blink_sub)]_vars

\* RESTING was left for BLINK_WAIT with messages still waiting on both topics
C5_Witness ==
    /\ state = WAIT_FOR_BLINK
    /\ armed_visit = 1
    /\ out[Len(out)] = Sent("led_pub", BLINK_WAIT)
    /\ move_sub # <<>>
    /\ blink_sub # <<>>

(* ------------------------------- C6 ------------------------------------ *)
\* The messages a subscription holds are unread, in publish order and
\* without duplicates.
Ordered(sub, read, published) ==
    /\ \A i, j \in 1..Len(sub) : i < j => sub[i].id < sub[j].id
    /\ \A i \in 1..Len(sub) : read < sub[i].id /\ sub[i].id <= published

\* C6: every event message that reached a subscription stays in it until
\* the core unit reads it, none is discarded because a newer one arrived on
\* its topic, and the messages are held, and so read, in publish order.
C6_NoEventSuperseded ==
    [][/\ \A m \in Members(move_sub) :
            m \in Members(move_sub') \/ last_move'.msg = m
       /\ \A m \in Members(blink_sub) :
            m \in Members(blink_sub') \/ last_blink' = m
       /\ Ordered(move_sub', last_move'.msg.id, n_move_pub')
       /\ Ordered(blink_sub', last_blink'.id, n_blink_pub')]_vars

\* Two move-events wait unread in publish order, the older one not replaced
\* by the newer one, after an earlier one was read
C6_Witness ==
    /\ ~conflate
    /\ last_move.msg.id = 1
    /\ Len(move_sub) = 2
    /\ move_sub[1].id = 2
    /\ move_sub[2].id = 3

(* ------------------------------- C7 ------------------------------------ *)
\* C7: once the gesture detector has emitted an event at time t, no frame
\* at a time < t + cooldown_seconds emits an event.
C7_Cooldown ==
    (frame.sig # 0 /\ frame.prev_event >= 0) =>
        frame.t >= frame.prev_event + COOLDOWN_PO_WYKRYCIU

\* a frame inside the cooldown had a score above HIGH and emitted nothing
C7_Witness ==
    /\ frame.cooldown
    /\ frame.t < frame.prev_event + COOLDOWN_PO_WYKRYCIU
    /\ RGt(frame.score, MNOZNIK_GORNY_Glowa)
    /\ frame.sig = 0

(* ------------------------------- C8 ------------------------------------ *)
\* C8 (as claimed): debounce_frame_count consecutive calibrated frames
\* outside cooldown whose score is exactly the LOW multiplier emit an event
\* on the last of them.
C8_ExactlyLowEmits ==
    frame.eq_run = MIN_LICZBA_KLATEK => frame.sig # 0

\* C8 (amended): consecutive calibrated frames outside cooldown whose score
\* is strictly above LOW and not above HIGH emit exactly one event, on the
\* frame at which their count reaches debounce_frame_count and on no earlier
\* one; a frame whose score is exactly LOW emits nothing.
C8_Debounce ==
    /\ frame.run <= MIN_LICZBA_KLATEK
    /\ frame.run > 0 => (frame.sig = 1 <=> frame.run = MIN_LICZBA_KLATEK)
    /\ (frame.run > 0 /\ frame.run < MIN_LICZBA_KLATEK) =>
            counter_zacisk = frame.run
    /\ frame.eq_run > 0 => frame.sig = 0

C8_Witness ==
    /\ frame.run = MIN_LICZBA_KLATEK
    /\ frame.sig = 1
    /\ frame.prev_event = -1

(* ------------------------------- C9 ------------------------------------ *)
\* C9: a frame whose score does not exceed the LOW multiplier never emits an
\* event (so a sequence that never exceeds LOW never emits one).
C9_NoEventAtOrBelowLow ==
    frame.sig # 0 => RGt(frame.score, MNOZNIK_DOLNY_Zeby)

\* calibrated, outside cooldown, score at most LOW, nothing emitted so far
C9_Witness ==
    /\ frame.calibrated
    /\ ~frame.cooldown
    /\ RGt(frame.score, <<1, 1>>)
    /\ ~RGt(frame.score, MNOZNIK_DOLNY_Zeby)
    /\ frame.sig = 0
    /\ frame.prev_event = -1

(* ------------------------------- C10 ----------------------------------- *)
\* C10: a frame processed while is_calibrated is false (the frame that
\* completes calibration included) broadcasts move signal 0 and changes
\* neither the debounce counter nor the cooldown deadline.
C10_SilentUntilCalibrated ==
    [][(frame'.n # frame.n /\ ~is_calibrated) =>
            /\ signal_to_send' = 0
            /\ frame'.sig = 0
            /\ counter_zacisk' = counter_zacisk
            /\ block_until' = block_until
            /\ \A m \in Members(move_sub') \ Members(move_sub) :
                    m.body = {<<"move", 0>>}]_vars

\* the frame that completed calibration carried a band power of 100
C10_Witness ==
    /\ is_calibrated
    /\ ~frame.calibrated
    /\ frame.raw = <<100, 1>>
    /\ frame.sig = 0

(* ------------------------------- C11 ----------------------------------- *)
\* C11: calibration is one-way: once is_calibrated is true it stays true
\* and neither the baseline power nor the accumulator changes again.
C11_CalibratedForGood ==
    [][is_calibrated =>
            /\ is_calibrated'
            /\ baseline_power' = baseline_power
            /\ calibration_buffer' = calibration_buffer]_vars

\* a calibrated frame with a positive band power other than the baseline
C11_Witness ==
    /\ is_calibrated
    /\ frame.calibrated
    /\ RGt(frame.raw, <<0, 1>>)
    /\ ~REq(frame.raw, baseline_power)

(* ------------------------------- C12 ----------------------------------- *)
\* C12: with batches arriving again and again, the gesture detector
\* eventually becomes calibrated, also when the warm-up deadline passed
\* without enough samples.
C12_EventuallyCalibrated == <>is_calibrated

(* ------------------------------- C13 ----------------------------------- *)
\* C13: whenever the gesture detector is calibrated, its baseline power is
\* at least the floor constant, whatever samples were accumulated.
C13_BaselineAtLeastFloor ==
    is_calibrated => RGe(baseline_power, BaselineFloor)

(* ------------------------------- C14 ----------------------------------- *)
\* C14: after every update, for batches of any size, the rolling buffer of
\* the gesture detector and that of the blink detector hold the last
\* BUFFER_SIZE samples of the zero-initialised stream followed by all samples
\* fed so far, in arrival order, and no update fails.
C14_BuffersHoldTail ==
    /\ g_eeg_buffer = LastN(Zeros(BUFFER_SIZE) \o g_stream, BUFFER_SIZE)
    /\ b_eeg_buffer = LastN(Zeros(BUFFER_SIZE) \o b_stream, BUFFER_SIZE)
    /\ cycle.error # "ValueError"

(* ------------------------------- C15 ----------------------------------- *)
\* C15: no malformed payload ends the loop of the blink detector, of the
\* state machine or of the command actuator.
C15_MalformedNeverTerminates ==
    \A w \in {"blink", "core"} \cup Players : cause[w] # "error"

(* ------------------------------- C16 ----------------------------------- *)
\* C16: a worker that has left its loop, by interrupt or by error, has closed
\* its sockets and is not blocked in the termination of its context.
C16_SocketsClosedOnExit ==
    \A w \in Workers :
        pc[w] \in {"exited", "blocked"} =>
            ~sockets_open[w] /\ pc[w] = "exited"

(* ------------------------------- C17 ----------------------------------- *)
\* C17: a triggered blink-event published while the mode is PREPARE, ARMED
\* or RESTING is dropped: the blink-event that started a cycle was published
\* while the mode was BLINK_WAIT.
C17_StaleBlinkStartsNoCycle ==
    BlinkTriggered(last_blink.body) => last_blink.st = WAIT_FOR_BLINK

(* ------------------------------- C18 ----------------------------------- *)
\* C18: one spike (a sample position whose rate of change is over the
\* threshold) yields a triggered blink-event in at most one cycle: no cycle
\* triggers on spikes that were all reported by earlier cycles.
C18_NoRetrigger == ~cycle.retrigger

(* ------------------------------- C19 ----------------------------------- *)
\* C19: after a triggered blink-event the blink detector publishes no
\* further triggered blink-event until the cooldown interval has elapsed.
C19_BlinkCooldown == ~cycle.early

(* ------------------------------- C20 ----------------------------------- *)
\* C20: in the calibrated detector outside cooldown, a frame whose
\* normalized score exceeds the HIGH multiplier emits the high-priority
\* event (-1) in that frame whatever the debounce counter was, leaves the
\* counter at 0 and starts the cooldown at the frame's timestamp.
C20_HighEmitsAtOnce ==
    (/\ frame.n # 0
     /\ frame.calibrated
     /\ ~frame.cooldown
     /\ RGt(frame.score, MNOZNIK_GORNY_Glowa))
    => /\ frame.sig = -1
       /\ signal_to_send = -1
       /\ counter_zacisk = 0
       /\ block_until = frame.t + COOLDOWN_PO_WYKRYCIU

\* a HIGH frame that found the debounce counter above 0
C20_Witness ==
    /\ frame.calibrated
    /\ ~frame.cooldown
    /\ RGt(frame.score, MNOZNIK_GORNY_Glowa)
    /\ frame.sig = -1
    /\ frame.reset_from > 0

(* ------------------------------- C21 ----------------------------------- *)
\* C21: the LED shows every status code with the colour the core unit means
\* by it: after the listener processed a status message, the LED is GREEN
\* for READY, ORANGE for REST and RED for BLINK_WAIT.
C21_ColourAsIntended ==
    led_shown.n # 0 => led_colour = Intended(led_shown.flag)

(* ------------------------------- C22 ----------------------------------- *)
\* C22: the status subscriber never processes a status message after a
\* newer one has been published.
C22_OnlyNewestStatus == ~led_shown.newer

(* ------------------------------- C23 ----------------------------------- *)
\* C23: once stop() has been called the listener begins no further receive,
\* the receive in progress returns within the receive timeout and the thread
\* is out of its loop when that receive has returned (it begins no call of
\* update_state after stop()); and on every exit
\* path the thread closes its socket before it terminates its context, and
\* has done both when it has exited.
C23_StopsWithinTimeout ==
    /\ led_at = "recv" =>
          /\ ~led_recv.stopped
          /\ led_recv.waited <= RCVTIMEO
    /\ led_at \in {"update", "queued"} => ~led_call.stopped
    /\ ~context_open["led"] => ~sockets_open["led"]
    /\ pc["led"] # "running" =>
          /\ pc["led"] = "exited"
          /\ ~sockets_open["led"]
          /\ ~context_open["led"]

(* ------------------------------- C24 ----------------------------------- *)
\* C24: the monitor loop ends only on an interrupt or when the move/hardware
\* process or the core process is not alive (a dead blink, slide or LED
\* process does not end it); the loader terminates and joins only processes
\* that were alive then, a joined process was sent SIGTERM and has ended,
\* and when it reports the system halted no worker process is alive.
C24_MonitorAndShutdown ==
    /\ loader_at # "monitor" =>
          \/ loader_end.how = "interrupt"
          \/ "MOVE_DETECT" \notin loader_end.alive
          \/ "CORE" \notin loader_end.alive
    /\ loader_end.spared \subseteq {"BLINK_DETECT", "SLIDE_CTRL", "LED_GUI"}
    /\ loader_joined \subseteq loader_end.alive
    /\ \A p \in loader_joined : p \in loader_sigterm /\ ~alive[p]
    /\ loader_at = "halted" =>
          /\ Living(alive) = {}
          /\ loader_i > Len(processes)

\* The monitor loop went on with the blink process dead, ended when the
\* move/hardware process had died, and the loader terminated and joined
\* the core process before it reported the halt.
C24_Witness ==
    /\ loader_at = "halted"
    /\ loader_end.how = "break"
    /\ "BLINK_DETECT" \in loader_end.spared
    /\ "CORE" \in loader_end.alive
    /\ "CORE" \in loader_joined

(* ------------------------------- C25 ----------------------------------- *)
\* C25: at every loop iteration of the core unit move_armed is true exactly
\* when the mode is ARMED (WAIT_FOR_MOVE), so a move-event read in ARMED is
\* never discarded for want of arming.
C25_ArmedIffWaitForMove == move_armed <=> state = WAIT_FOR_MOVE

\* The flag has been raised on entering ARMED a second time, after it was
\* lowered by the command of the first visit.
C25_Witness ==
    /\ move_armed
    /\ state = WAIT_FOR_MOVE
    /\ armed_visit = 2
    /\ Len(cmd_log) = 1

(* ------------------------------- C26 ----------------------------------- *)
\* C26: any two consecutive commands are at least REST_TIME + READY_TIME
\* apart, exactly one status BLINK_WAIT and exactly one status READY are
\* published between them, and at least one blink-event with blink = 1 is
\* read between them.
Ordinal(log, i) == Cardinality({k \in Commands(log) : k <= i})

Consecutive(log, i, j) ==
    /\ i \in Commands(log)
    /\ j \in Commands(log)
    /\ i < j
    /\ \A k \in Commands(log) : ~(i < k /\ k < j)

StatusesBetween(log, i, j, flag) ==
    {k \in (i + 1)..(j - 1) : log[k] = Sent("led_pub", flag)}

C26_CommandsApart ==
    \A i, j \in 1..Len(out) :
        Consecutive(out, i, j) =>
            LET a == cmd_log[Ordinal(out, i)]
                b == cmd_log[Ordinal(out, j)]
            IN
            /\ b.t - a.t >= REST_TIME + READY_TIME
            /\ Cardinality(StatusesBetween(out, i, j, BLINK_WAIT)) = 1
            /\ Cardinality(StatusesBetween(out, i, j, READY)) = 1
            /\ b.triggered - a.triggered >= 1

\* Two commands have been sent.
C26_Witness ==
    /\ Len(cmd_log) = 2
    /\ Cardinality(Commands(out)) = 2
    /\ cmd_log[2].t - cmd_log[1].t = REST_TIME + READY_TIME
    /\ state = RESTING

(* ------------------------------- C27 ----------------------------------- *)
\* C27: with the core loop running and the clock advancing, whatever events
\* are published, a core unit in PREPARE becomes ARMED and a core unit in
\* RESTING returns to BLINK_WAIT (for waits that end within the explored
\* time).
PrepareEndsInTime ==
    state = PREPARE_TO_LISTEN /\ wait_start_time + READY_TIME <= MaxTime

RestEndsInTime ==
    state = RESTING /\ wait_start_time + REST_TIME <= MaxTime

C27_TimedModesEnd ==
    /\ PrepareEndsInTime ~> state = WAIT_FOR_MOVE
    /\ RestEndsInTime ~> state = WAIT_FOR_BLINK

\* The core unit has left RESTING after a rest during which an event was
\* published, which it did not read.
C27_Witness ==
    /\ state = WAIT_FOR_BLINK
    /\ Len(cmd_log) = 1
    /\ entered_at >= cmd_log[1].t + REST_TIME
    /\ \/ blink_sub # <<>> /\ Head(blink_sub).st = RESTING
       \/ move_sub # <<>> /\ Head(move_sub).st = RESTING

====
